---- MODULE Spec2Model ----
(***************************************************************************)
(* Misago: thread moderation actions (misago/threads/moderation/threads.py) *)
(* and the generic admin views (misago/admin/views/generic.py).             *)
(*                                                                          *)
(* Moderation: the database holds the persisted threads, their first posts  *)
(* and their audit events.  Every request works on its own in-memory copy   *)
(* of a thread (a Django model instance loaded earlier).  A moderation      *)
(* function runs inside one @atomic transaction: its writes reach the       *)
(* database together when it returns and not at all when it raises.         *)
(***************************************************************************)
EXTENDS Integers, Sequences, FiniteSets, TLC

VARIABLES db, mem, held, clock, applied, last, flash, items, view, session, listing

vars == <<db, mem, held, clock, applied, last, flash, items, view, session, listing>>

modvars == <<db, mem, held, clock, applied, last>>

admvars == <<flash, items, view, session, listing>>

\* ------------------------------------------------------------------ bounds

\* Number of moderation calls of one run (each call reads the clock once).
MaxCalls == 3

\* Number of flash messages kept before the next page render consumes them.
MaxFlash == 2

ThreadIds == {1, 2}

\* The threads moderation is applied to; the other thread is there to be
\* merged in.  Threads do not interact except through merge_thread, so what
\* holds of the calls on one thread holds of the calls on any.
Targets == {1}

Requests == {1, 2}

Users == {"alice", "bob"}

\* request.user: the moderator a request is authenticated as.
UserOf(r) == IF r = 1 THEN "alice" ELSE "bob"

Categories == {"c1", "c2"}

\* The admin Model's primary keys; what a form saves; what a subclass's
\* check_permissions may return; the request methods.
ItemIds == {1, 2}

FormData == {"v1", "v2"}

PermissionErrors == {"None", "denied", "protected"}

Methods == {"GET", "POST"}

\* get_target's DoesNotExist and get_target_or_none's None.
DoesNotExist == -2

NoTarget == -1

\* The database operations one call may complete before an error is raised;
\* no moderation function performs more than MaxOps of them, so a call given
\* MaxOps of them runs to its end.
MaxOps == 4

FailPoints == 0..MaxOps

\* --------------------------------------------------------------- the data

ThreadFields == {"weight", "is_closed", "is_hidden", "is_moderated", "category", "has_events"}

username(u) == IF u = "alice" THEN "Alice" ELSE "Bob"

slug(u) == u

NoPost == [is_moderated |-> FALSE, is_hidden |-> FALSE, hidden_by |-> "None",
           hidden_by_name |-> "None", hidden_by_slug |-> "None", hidden_on |-> 0]

NoRow == [weight |-> 0, is_closed |-> FALSE, is_hidden |-> FALSE,
          is_moderated |-> FALSE, category |-> "c1", has_events |-> FALSE]

\* An in-memory Thread instance: its columns and the cached first_post instance.
NoObj == [weight |-> 0, is_closed |-> FALSE, is_hidden |-> FALSE,
          is_moderated |-> FALSE, category |-> "c1", has_events |-> FALSE,
          first_post |-> NoPost]

RowOf(obj) == [f \in ThreadFields |-> obj[f]]

ObjOf(row, post) == [weight |-> row.weight, is_closed |-> row.is_closed,
                     is_hidden |-> row.is_hidden, is_moderated |-> row.is_moderated,
                     category |-> row.category, has_events |-> row.has_events,
                     first_post |-> post]

\* The posts of thread t (Post rows whose thread is t).
PostsOf(d, t) == {p \in ThreadIds : d.postThread[p] = t}

\* ------------------------------------------- the steps of a running call
\* c is the running call: the transaction's view of the database (db), the
\* request's instances (obj), the database operations left before an error
\* is raised (fuel), whether it raised, the time, and what it did so far
\* (saves: the field lists of the thread's saves; steps: the steps taken).

Begin(r, fuel) == [db |-> db, obj |-> mem[r], fuel |-> fuel, raised |-> FALSE,
                   now |-> clock + 1, saves |-> <<>>, steps |-> <<>>, ret |-> FALSE]

\* One database operation: it raises when the injected error is due or when
\* the database refuses it (ok is false), and is skipped once the call raised.
DbOp(c, ok, newdb, step) ==
    IF c.raised THEN c
    ELSE IF c.fuel = 0 \/ ~ok THEN [c EXCEPT !.raised = TRUE]
    ELSE [c EXCEPT !.db = newdb, !.fuel = @ - 1,
                   !.steps = Append(@, step)]

\* The call was given all MaxOps operations: no error was injected into it.
Unfailed(c) == c.fuel + Len(SelectSeq(c.steps, LAMBDA x : x # "synchronize")) = MaxOps

\* thread.<field> = value
Assign(c, t, field, value) ==
    IF c.raised THEN c ELSE [c EXCEPT !.obj[t][field] = value]

\* thread.first_post.<field> = value
AssignPost(c, t, field, value) ==
    IF c.raised THEN c ELSE [c EXCEPT !.obj[t].first_post[field] = value]

Return(c, value) == IF c.raised THEN c ELSE [c EXCEPT !.ret = value]

\* record_event(user, thread, icon, message, args): one Event row is created
\* for the thread and the instance's has_events flag is set.
record_event(c, user, t, icon, message) ==
    LET ev == [icon |-> icon, message |-> message, author |-> user]
        c1 == DbOp(c, t \in c.db.alive,
                   [c.db EXCEPT !.events[t] = Append(@, ev)], "record_event")
    IN Assign(c1, t, "has_events", TRUE)

\* thread.save(update_fields=fields): an UPDATE of these columns of the row;
\* Django raises DatabaseError when the row is gone.
save(c, t, fields) ==
    LET row == [f \in ThreadFields |->
                   IF f \in fields THEN c.obj[t][f] ELSE c.db.thread[t][f]]
        c1 == DbOp(c, t \in c.db.alive,
                   [c.db EXCEPT !.thread[t] = row,
                                !.changes[t] = IF c.saves = <<>> THEN @ + 1 ELSE @],
                   "save")
    IN IF c1.raised THEN c1 ELSE [c1 EXCEPT !.saves = Append(@, fields)]

\* thread.save(): every column is written (the row is inserted when it is gone).
save_all(c, t) ==
    LET c1 == DbOp(c, TRUE,
                   [c.db EXCEPT !.thread[t] = RowOf(c.obj[t]),
                                !.alive = @ \cup {t},
                                !.changes[t] = IF c.saves = <<>> THEN @ + 1 ELSE @],
                   "save")
    IN IF c1.raised THEN c1 ELSE [c1 EXCEPT !.saves = Append(@, ThreadFields)]

\* thread.first_post.save(update_fields=fields)
save_first_post(c, t, fields) ==
    LET post == [f \in DOMAIN NoPost |->
                    IF f \in fields THEN c.obj[t].first_post[f] ELSE c.db.post[t][f]]
    IN DbOp(c, c.db.postThread[t] # 0, [c.db EXCEPT !.post[t] = post], "save_first_post")

\* thread.synchronize(): the derived columns are read back from the database:
\* has_events from the thread's events, is_moderated and is_hidden from its
\* first post, which becomes the cached first_post.
synchronize(c, t) ==
    IF c.raised THEN c
    ELSE [c EXCEPT !.obj[t].has_events = c.db.events[t] # <<>>,
                   !.obj[t].is_moderated = c.db.post[t].is_moderated,
                   !.obj[t].is_hidden = c.db.post[t].is_hidden,
                   !.obj[t].first_post = c.db.post[t],
                   !.steps = Append(@, "synchronize")]

\* thread.move(new_category)
move(c, t, new_category) == Assign(c, t, "category", new_category)

\* thread.merge(other_thread): the other thread's posts become this thread's.
merge(c, t, o) ==
    DbOp(c, t \in c.db.alive,
         [c.db EXCEPT !.postThread = [p \in ThreadIds |-> IF @[p] = o THEN t ELSE @[p]]],
         "merge")

\* thread.delete(): the row goes, and with it (cascade) the posts and events
\* that still belong to the thread.
delete(c, t) ==
    DbOp(c, TRUE,
         [c.db EXCEPT !.alive = @ \ {t},
                      !.thread[t] = NoRow,
                      !.changes[t] = 0,
                      !.events[t] = <<>>,
                      !.post = [p \in ThreadIds |-> IF c.db.postThread[p] = t THEN NoPost ELSE @[p]],
                      !.postThread = [p \in ThreadIds |-> IF @[p] = t THEN 0 ELSE @[p]]],
         "delete")

\* ------------------------------------------------ the moderation functions
\* Each takes the acting user, the thread (and its auxiliary target) and the
\* running call, and yields the call after the function's body.

\* announce_thread without its record_event call.
announce_thread_silent(user, t, c) ==
    IF c.obj[t].weight # 2
    THEN LET c2 == Assign(c, t, "weight", 2)
             c3 == save(c2, t, {"has_events", "weight"})
         IN Return(c3, TRUE)
    ELSE Return(c, FALSE)

announce_thread(user, t, c) ==
    IF c.obj[t].weight # 2
    THEN LET c1 == record_event(c, user, t, "star", "announced")
             c2 == Assign(c1, t, "weight", 2)
             c3 == save(c2, t, {"has_events", "weight"})
         IN Return(c3, TRUE)
    ELSE Return(c, FALSE)

\* pin_thread recording its event twice.
pin_thread_two_events(user, t, c) ==
    IF c.obj[t].weight # 1
    THEN LET c0 == record_event(c, user, t, "bookmark", "pinned")
             c1 == record_event(c0, user, t, "bookmark", "pinned")
             c2 == Assign(c1, t, "weight", 1)
             c3 == save(c2, t, {"has_events", "weight"})
         IN Return(c3, TRUE)
    ELSE Return(c, FALSE)

pin_thread(user, t, c) ==
    IF c.obj[t].weight # 1
    THEN LET c1 == record_event(c, user, t, "bookmark", "pinned")
             c2 == Assign(c1, t, "weight", 1)
             c3 == save(c2, t, {"has_events", "weight"})
         IN Return(c3, TRUE)
    ELSE Return(c, FALSE)

remove_thread_weight(user, t, c) ==
    IF c.obj[t].weight # 0
    THEN LET c1 == record_event(c, user, t, "circle", "removed weight")
             c2 == Assign(c1, t, "weight", 0)
             c3 == save(c2, t, {"has_events", "weight"})
         IN Return(c3, TRUE)
    ELSE Return(c, FALSE)

move_thread(user, t, new_category, c) ==
    IF c.obj[t].category # new_category
    THEN LET c1 == record_event(c, user, t, "arrow-right", "moved")
             c2 == move(c1, t, new_category)
             c3 == save(c2, t, {"has_events", "category"})
         IN Return(c3, TRUE)
    ELSE Return(c, FALSE)

\* merge_thread deleting the other thread before merging it.
merge_thread_delete_first(user, t, o, c) ==
    LET c1 == record_event(c, user, t, "arrow-right", "merged")
        c2 == delete(c1, o)
        c3 == merge(c2, t, o)
    IN Return(c3, TRUE)

merge_thread(user, t, o, c) ==
    LET c1 == record_event(c, user, t, "arrow-right", "merged")
        c2 == merge(c1, t, o)
        c3 == delete(c2, o)
    IN Return(c3, TRUE)

approve_thread(user, t, c) ==
    IF c.obj[t].is_moderated
    THEN LET c1 == record_event(c, user, t, "check", "approved")
             c2 == Assign(c1, t, "is_closed", FALSE)
             c3 == AssignPost(c2, t, "is_moderated", FALSE)
             c4 == save_first_post(c3, t, {"is_moderated"})
             c5 == synchronize(c4, t)
             c6 == save(c5, t, {"has_events", "is_moderated"})
         IN Return(c6, TRUE)
    ELSE Return(c, FALSE)

open_thread(user, t, c) ==
    IF c.obj[t].is_closed
    THEN LET c1 == record_event(c, user, t, "unlock-alt", "opened")
             c2 == Assign(c1, t, "is_closed", FALSE)
             c3 == save(c2, t, {"has_events", "is_closed"})
         IN Return(c3, TRUE)
    ELSE Return(c, FALSE)

\* close_thread without its check of the thread's state.
close_thread_unchecked(user, t, c) ==
    LET c1 == record_event(c, user, t, "lock", "closed")
        c2 == Assign(c1, t, "is_closed", TRUE)
        c3 == save(c2, t, {"has_events", "is_closed"})
    IN Return(c3, TRUE)

close_thread(user, t, c) ==
    IF ~c.obj[t].is_closed
    THEN LET c1 == record_event(c, user, t, "lock", "closed")
             c2 == Assign(c1, t, "is_closed", TRUE)
             c3 == save(c2, t, {"has_events", "is_closed"})
         IN Return(c3, TRUE)
    ELSE Return(c, FALSE)

unhide_thread(user, t, c) ==
    IF c.obj[t].is_hidden
    THEN LET c1 == record_event(c, user, t, "eye", "made visible")
             c2 == AssignPost(c1, t, "is_hidden", FALSE)
             c3 == save_first_post(c2, t, {"is_hidden"})
             c4 == Assign(c3, t, "is_hidden", FALSE)
             c5 == save(c4, t, {"has_events", "is_hidden"})
             c6 == synchronize(c5, t)
             c7 == save_all(c6, t)
         IN Return(c7, TRUE)
    ELSE Return(c, FALSE)

\* hide_thread hiding the thread and not its first post.
hide_thread_keeps_post(user, t, c) ==
    IF ~c.obj[t].is_hidden
    THEN LET c1 == record_event(c, user, t, "eye-slash", "hidden")
             c8 == Assign(c1, t, "is_hidden", TRUE)
             c9 == save(c8, t, {"has_events", "is_hidden"})
         IN Return(c9, TRUE)
    ELSE Return(c, FALSE)

hide_thread(user, t, c) ==
    IF ~c.obj[t].is_hidden
    THEN LET c1 == record_event(c, user, t, "eye-slash", "hidden")
             c2 == AssignPost(c1, t, "is_hidden", TRUE)
             c3 == AssignPost(c2, t, "hidden_by", user)
             c4 == AssignPost(c3, t, "hidden_by_name", username(user))
             c5 == AssignPost(c4, t, "hidden_by_slug", slug(user))
             c6 == AssignPost(c5, t, "hidden_on", c.now)
             c7 == save_first_post(c6, t, {"is_hidden", "hidden_by", "hidden_by_name",
                                           "hidden_by_slug", "hidden_on"})
             c8 == Assign(c7, t, "is_hidden", TRUE)
             c9 == save(c8, t, {"has_events", "is_hidden"})
         IN Return(c9, TRUE)
    ELSE Return(c, FALSE)

delete_thread(user, t, c) == Return(delete(c, t), TRUE)

\* Without @atomic every write is committed as it is made.
autocommit(before, c) == c.db

\* @atomic: the transaction commits when the function returns and is rolled
\* back when it raises.
atomic(before, c) == IF c.raised THEN before ELSE c.db

\* ------------------------------------------------------------ the machine

\* The threads as created: visible, open, unweighted, without events; a
\* thread awaiting approval is moderated together with its first post.
InitDb(moderated) ==
    [alive |-> ThreadIds,
     thread |-> [t \in ThreadIds |-> [NoRow EXCEPT !.is_moderated = t \in moderated]],
     post |-> [t \in ThreadIds |-> [NoPost EXCEPT !.is_moderated = t \in moderated]],
     postThread |-> [t \in ThreadIds |-> t],
     events |-> [t \in ThreadIds |-> <<>>],
     changes |-> [t \in ThreadIds |-> 0]]

NoCall == [op |-> "none", req |-> 0, thread |-> 0, other |-> 0, user |-> "None",
           category |-> "None", ret |-> FALSE, raised |-> FALSE, pre |-> InitDb({}),
           preobj |-> NoObj, postobj |-> NoObj, saves |-> <<>>, steps |-> <<>>]

Redirect(to) == [kind |-> "redirect", to |-> to]

Rendered(template) == [kind |-> "render", to |-> template]

Raised(exception) == [kind |-> "exception", to |-> exception]

Error(text) == [level |-> "error", text |-> text]

Success(text) == [level |-> "success", text |-> text]

NoView == [class |-> "none", method |-> "GET", pk |-> 0, error |-> "unchecked",
           trace |-> <<>>, flashed |-> <<>>, response |-> Raised("none"), items |-> [i \in ItemIds |-> "absent"]]

\* context['order'], context['paginator'] and context['page'] before they
\* are set (None).
NoOrder == [name |-> "None", order_by |-> "None", type |-> "None"]

NoPaginator == [count |-> 0, per_page |-> 0, num_pages |-> 0]

NoPage == [number |-> 0, object_list |-> <<>>]

\* The context a list view starts with (generic.py:147-153), before
\* get_queryset fills in the items.
NoContext == [items |-> <<>>, paginator |-> NoPaginator, page |-> NoPage,
              order_by |-> <<>>, order |-> NoOrder]

\* The last list request handled: the view class and its items_per_page, the
\* request (method, POST order_by, the page argument of the URL), the
\* session's ordering before and after, the messages flashed, the steps run,
\* the context built and the response.
NoListing == [class |-> "none", items_per_page |-> 0, method |-> "GET", POST |-> "absent",
              page |-> "absent", before |-> "None", session |-> "None",
              flashed |-> <<>>, trace |-> <<>>, context |-> NoContext,
              response |-> Raised("none")]

InitModeration(awaiting) ==
    /\ \E moderated \in SUBSET awaiting : db = InitDb(moderated)
    /\ mem = [r \in Requests |-> [t \in ThreadIds |-> NoObj]]
    /\ held = [r \in Requests |-> {}]
    /\ clock = 0
    /\ applied = [t \in ThreadIds |-> 0]
    /\ last = NoCall

InitAdmin ==
    /\ flash = <<>>
    /\ items = [i \in ItemIds |-> "absent"]
    /\ view = NoView
    /\ session = "None"
    /\ listing = NoListing

Init == InitModeration(ThreadIds) /\ InitAdmin

\* A request fetches thread t (with its first post) from the database.
Load(r, t) ==
    /\ t \in db.alive
    /\ mem' = [mem EXCEPT ![r][t] = ObjOf(db.thread[t], db.post[t])]
    /\ held' = [held EXCEPT ![r] = @ \cup {t}]
    /\ UNCHANGED <<db, clock, applied, last, admvars>>

\* The end of a call of request r: the transaction commits or is rolled back;
\* a request whose call raised ends there and lets go of its instances, and an
\* instance the call deleted is not used again (gone).
Finish(r, op, user, t, o, cat, gone, c) ==
    /\ c.raised \/ Unfailed(c)
    /\ db' = atomic(db, c)
    /\ mem' = [mem EXCEPT ![r] = [x \in ThreadIds |->
                  IF c.raised \/ x \in gone THEN NoObj ELSE c.obj[x]]]
    /\ held' = [held EXCEPT ![r] = IF c.raised THEN {} ELSE @ \ gone]
    /\ clock' = clock + 1
    /\ applied' = [x \in ThreadIds |->
                      IF x \notin db'.alive THEN 0
                      ELSE IF x = t /\ ~c.raised /\ c.ret THEN applied[x] + 1
                      ELSE applied[x]]
    /\ last' = IF c.raised
               THEN [NoCall EXCEPT !.op = "raised", !.raised = TRUE, !.pre = db,
                                   !.steps = c.steps]
               ELSE [op |-> op, req |-> r, thread |-> t, other |-> o, user |-> user,
                     category |-> cat, ret |-> c.ret, raised |-> FALSE, pre |-> db,
                     preobj |-> mem[r][t], postobj |-> c.obj[t],
                     saves |-> c.saves, steps |-> c.steps]
    /\ UNCHANGED admvars

CanCall(r, t) == clock < MaxCalls /\ t \in held[r]

AnnounceThread(r, user, t, fuel) ==
    /\ CanCall(r, t)
    /\ Finish(r, "announce_thread", user, t, 0, "None", {}, announce_thread(user, t, Begin(r, fuel)))

PinThread(r, user, t, fuel) ==
    /\ CanCall(r, t)
    /\ Finish(r, "pin_thread", user, t, 0, "None", {}, pin_thread(user, t, Begin(r, fuel)))

RemoveThreadWeight(r, user, t, fuel) ==
    /\ CanCall(r, t)
    /\ Finish(r, "remove_thread_weight", user, t, 0, "None", {},
              remove_thread_weight(user, t, Begin(r, fuel)))

MoveThread(r, user, t, cat, fuel) ==
    /\ CanCall(r, t)
    /\ Finish(r, "move_thread", user, t, 0, cat, {}, move_thread(user, t, cat, Begin(r, fuel)))

MergeThread(r, user, t, o, fuel) ==
    /\ CanCall(r, t)
    /\ o \in held[r]
    /\ Finish(r, "merge_thread", user, t, o, "None", {o}, merge_thread(user, t, o, Begin(r, fuel)))

ApproveThread(r, user, t, fuel) ==
    /\ CanCall(r, t)
    /\ Finish(r, "approve_thread", user, t, 0, "None", {}, approve_thread(user, t, Begin(r, fuel)))

OpenThread(r, user, t, fuel) ==
    /\ CanCall(r, t)
    /\ Finish(r, "open_thread", user, t, 0, "None", {}, open_thread(user, t, Begin(r, fuel)))

CloseThread(r, user, t, fuel) ==
    /\ CanCall(r, t)
    /\ Finish(r, "close_thread", user, t, 0, "None", {}, close_thread(user, t, Begin(r, fuel)))

UnhideThread(r, user, t, fuel) ==
    /\ CanCall(r, t)
    /\ Finish(r, "unhide_thread", user, t, 0, "None", {}, unhide_thread(user, t, Begin(r, fuel)))

HideThread(r, user, t, fuel) ==
    /\ CanCall(r, t)
    /\ Finish(r, "hide_thread", user, t, 0, "None", {}, hide_thread(user, t, Begin(r, fuel)))

DeleteThread(r, user, t, fuel) ==
    /\ CanCall(r, t)
    /\ Finish(r, "delete_thread", user, t, 0, "None", {t}, delete_thread(user, t, Begin(r, fuel)))

\* The moderation functions that take a thread only, called by request r.
Call(r, u, t, k) ==
    \/ AnnounceThread(r, u, t, k)
    \/ PinThread(r, u, t, k)
    \/ RemoveThreadWeight(r, u, t, k)
    \/ \E cat \in Categories : MoveThread(r, u, t, cat, k)
    \/ ApproveThread(r, u, t, k)
    \/ OpenThread(r, u, t, k)
    \/ CloseThread(r, u, t, k)
    \/ UnhideThread(r, u, t, k)
    \/ HideThread(r, u, t, k)
    \/ DeleteThread(r, u, t, k)

\* One request at a time: every call works on the instances of request 1.
Next ==
    \/ \E t \in ThreadIds : Load(1, t)
    \/ \E t \in Targets, k \in FailPoints : Call(1, UserOf(1), t, k)
    \/ \E t \in Targets, o \in ThreadIds, k \in FailPoints :
          MergeThread(1, UserOf(1), t, o, k)

Spec == Init /\ [][Next]_vars

\* Concurrent requests on one thread: each request holds its own instance,
\* loaded before the other request's transaction committed.
ConcNext ==
    \/ \E r \in Requests, t \in Targets : Load(r, t)
    \/ \E r \in Requests, t \in Targets, k \in FailPoints : Call(r, UserOf(r), t, k)

\* Only the target threads are worked on, so only they start in either state.
ConcInit == InitModeration(Targets) /\ InitAdmin

ConcSpec == ConcInit /\ [][ConcNext]_vars

\* ------------------------------------------------------- the admin views
\* items: the rows of the view's Model ("absent": no row with this pk);
\* flash: the messages waiting to be shown; view: the last request handled:
\* the steps it ran, the messages it flashed and its response.

\* What a handler has done so far: v.items are the Model's rows, v.error what
\* check_permissions returned ("unchecked": it was not called).
Start(class, method, pk) ==
    [class |-> class, method |-> method, pk |-> pk, error |-> "unchecked",
     trace |-> <<>>, flashed |-> <<>>, response |-> Raised("none"), items |-> items]

Step(v, name) == [v EXCEPT !.trace = Append(@, name)]

Flash(v, message) == [v EXCEPT !.flashed = Append(@, message)]

Respond(v, response) == [v EXCEPT !.response = response]

\* AdminView._get_target(request, kwargs): the body reads the name target,
\* which neither the method nor the module binds: NameError is raised while
\* the argument of get_target is evaluated, before any query, and the except
\* clause (Model.DoesNotExist) does not catch it.
AdminView_get_target(v) == Respond(Step(v, "_get_target"), Raised("NameError"))

\* TargetedView.get_target(kwargs): the row with the pk of the first keyword
\* argument, or a new instance (0) when there is none; DoesNotExist otherwise.
get_target(v) ==
    IF v.pk # 0
    THEN IF v.items[v.pk] # "absent" THEN v.pk ELSE DoesNotExist
    ELSE 0

get_target_or_none(v) ==
    IF get_target(v) = DoesNotExist THEN NoTarget ELSE get_target(v)

\* FormView.handle_form: form.instance.save() and the success message.
handle_form(v, target, data, message_submit) ==
    LET pk == IF target = 0 THEN CHOOSE i \in ItemIds : v.items[i] = "absent" /\
                                     \A j \in ItemIds : v.items[j] = "absent" => i <= j
              ELSE target
        v1 == Step([v EXCEPT !.items[pk] = data], "handle_form")
    IN IF message_submit THEN Flash(v1, Success("message_submit")) ELSE v1

\* FormView.real_dispatch: a bound form only on POST; a valid form is saved
\* and the response is a redirect, otherwise the form page is rendered.
FormView_real_dispatch(v, target, q) ==
    LET v1 == Step(v, "real_dispatch")
    IN IF v.method = "POST" /\ q.valid
       THEN LET v2 == handle_form(v1, target, q.data, q.message_submit)
            IN IF q.stay THEN Respond(v2, Redirect("request.path"))
               ELSE Respond(v2, Redirect("root_link"))
       ELSE Respond(v1, Rendered("form.html"))

\* ButtonView.real_dispatch: on POST the subclass's button_action runs (the
\* base class's raises NotImplementedError); its response, when it gives one,
\* is the view's, and root_link is redirected to otherwise.
ButtonView_real_dispatch(v, target, q) ==
    LET v1 == Step(v, "real_dispatch")
    IN IF v.method = "POST"
       THEN LET v2 == Step(v1, "button_action")
            IN IF q.hook = "NotImplementedError" THEN Respond(v2, Raised("NotImplementedError"))
               ELSE IF q.hook = "response" THEN Respond(v2, [kind |-> "hook", to |-> "button_action"])
               ELSE Respond(v2, Redirect("root_link"))
       ELSE Respond(v1, Redirect("root_link"))

real_dispatch(v, target, q) ==
    IF v.class = "FormView" THEN FormView_real_dispatch(v, target, q)
    ELSE ButtonView_real_dispatch(v, target, q)

\* TargetedView.dispatch without the return after a permission error.
TargetedView_dispatch_falls_through(v, q) ==
    LET v1 == Step(v, "get_target_or_none")
        target == get_target_or_none(v)
    IN IF target = NoTarget
       THEN Respond(Flash(v1, Error("message_404")), Redirect("root_link"))
       ELSE LET error == q.error
                v2 == [Step(v1, "check_permissions") EXCEPT !.error = error]
            IN IF error # "None"
               THEN real_dispatch(Flash(v2, Error(error)), target, q)
               ELSE real_dispatch(v2, target, q)

\* TargetedView.dispatch; q.error is what the subclass's check_permissions
\* returns ("None": nothing).
TargetedView_dispatch(v, q) ==
    LET v1 == Step(v, "get_target_or_none")
        target == get_target_or_none(v)
    IN IF target = NoTarget
       THEN Respond(Flash(v1, Error("message_404")), Redirect("root_link"))
       ELSE LET error == q.error
                v2 == [Step(v1, "check_permissions") EXCEPT !.error = error]
            IN IF error # "None"
               THEN Respond(Flash(v2, Error(error)), Redirect("root_link"))
               ELSE real_dispatch(v2, target, q)

\* The end of a request: its messages are queued, and a rendered page shows
\* (and so clears) the queued messages.
Handled(v) ==
    /\ Len(flash) + Len(v.flashed) <= MaxFlash
    /\ flash' = IF v.response.kind = "render" THEN <<>> ELSE flash \o v.flashed
    /\ items' = v.items
    /\ view' = v
    /\ UNCHANGED <<modvars, session, listing>>

GetTarget(pk) == Handled(AdminView_get_target(Start("AdminView", "GET", pk)))

FormQueries ==
    [error : PermissionErrors, valid : BOOLEAN, data : FormData, stay : BOOLEAN,
     message_submit : BOOLEAN, hook : {"None"}]

ButtonQueries ==
    [error : PermissionErrors, valid : {FALSE}, data : {"v1"}, stay : {FALSE},
     message_submit : {FALSE}, hook : {"None", "response", "NotImplementedError"}]

FormDispatch(method, pk, q) ==
    /\ pk = 0 /\ method = "POST" /\ q.valid => \E i \in ItemIds : items[i] = "absent"
    /\ Handled(TargetedView_dispatch(Start("FormView", method, pk), q))

ButtonDispatch(method, pk, q) ==
    Handled(TargetedView_dispatch(Start("ButtonView", method, pk), q))

AdminNext ==
    \/ \E pk \in ItemIds : GetTarget(pk)
    \/ \E method \in Methods, pk \in ItemIds \cup {0}, q \in FormQueries :
          FormDispatch(method, pk, q)
    \/ \E method \in Methods, pk \in ItemIds \cup {0}, q \in ButtonQueries :
          ButtonDispatch(method, pk, q)

AdminInit == InitModeration({}) /\ InitAdmin

AdminSpec == AdminInit /\ [][AdminNext]_vars

\* -------------------------------------------------------- the list views
\* session: the value stored under ordering_session_key() ("None": the key
\* is not set).  The key is made from root_link alone, so the list views
\* below, which are views of one root_link, read and write the same value.

\* The ListView subclasses and their ordering attribute: tuples of
\* (name, order_by); PlainList leaves it None.
ListViews == {"PlainList", "IdList", "NameList"}

ordering(class) ==
    CASE class = "IdList" -> << <<"Oldest first", "id">>, <<"Newest first", "-id">> >>
      [] class = "NameList" -> << <<"A to z", "name">>, <<"Newest first", "-id">>,
                                  <<"Oldest first", "id">> >>
      [] OTHER -> <<>>

\* The items_per_page attribute of a subclass (0: no pagination).
ItemsPerPage == {0, 1}

\* request.POST['order_by'] ("absent": not posted) and the page argument of
\* the URL ("absent": the URL has none).
PostedOrders == {"absent", "bogus", "id", "name"}

PageArgs == {"absent", "abc", "0", "1", "2", "3"}

\* int(page) of a decimal literal; for other text int() raises ValueError.
Decimal == ("0" :> 0) @@ ("1" :> 1) @@ ("2" :> 2) @@ ("3" :> 3)

\* order[1][0] == '-'
Descending(key) == key = "-id"

NameRank(data) == IF data = "v1" THEN 1 ELSE 2

\* The value rows are compared by under queryset.order_by(key).
SortKey(i, key) ==
    IF key = "name" THEN NameRank(items[i])
    ELSE IF key = "-id" THEN 0 - i
    ELSE i

\* queryset.order_by(key): the same rows, sorted by key.
order_by(qs, key) ==
    CHOOSE s \in [1..Len(qs) -> {qs[i] : i \in 1..Len(qs)}] :
        \A i, j \in 1..Len(qs) : i < j => SortKey(s[i], key) < SortKey(s[j], key)

\* get_queryset: Model.objects.all(), the rows in primary key order.
get_queryset ==
    LET ids == {i \in ItemIds : items[i] # "absent"}
    IN CHOOSE s \in [1..Cardinality(ids) -> ids] :
           \A i, j \in 1..Cardinality(ids) : i < j => s[i] < s[j]

StartList(class, per_page, method, post, page) ==
    [class |-> class, items_per_page |-> per_page, method |-> method, POST |-> post,
     page |-> page, before |-> session, session |-> session, flashed |-> <<>>,
     trace |-> <<>>, context |-> NoContext, response |-> Raised("none")]

\* AdminView.render of the list template.
render(l) == Respond(Step(l, "render"), Rendered("list.html"))

\* Paginator(object_list, per_page, allow_empty_first_page=True)
Paginator(object_list, per_page) ==
    [count |-> Len(object_list), per_page |-> per_page,
     num_pages |-> IF Len(object_list) = 0 THEN 1
                   ELSE (Len(object_list) + per_page - 1) \div per_page]

\* paginator.page(number) for an integer number >= 1
Page(object_list, paginator, number) ==
    LET bottom == (number - 1) * paginator.per_page
        top == IF bottom + paginator.per_page > paginator.count THEN paginator.count
               ELSE bottom + paginator.per_page
    IN [number |-> number, object_list |-> SubSeq(object_list, bottom + 1, top)]

\* ListView.paginate_items(context, page).  When int(page) raises ValueError
\* the handler assigns page_no, not page: page is still the text, and
\* paginator.page(page) raises PageNotAnInteger.  A page beyond the last one
\* raises EmptyPage.
paginate_items(l, page) ==
    LET l1 == Step(l, "paginate_items")
        paginator == Paginator(l.context.items, l.items_per_page)
        l2 == [l1 EXCEPT !.context.paginator = paginator]
    IN IF page \in DOMAIN Decimal
       THEN IF Decimal[page] = 1 THEN Respond(l1, Raised("ExplicitFirstPage"))
            ELSE LET number == IF Decimal[page] = 0 THEN 1 ELSE Decimal[page]
                     this == Page(l.context.items, paginator, number)
                 IN IF number > paginator.num_pages THEN Respond(l2, Raised("EmptyPage"))
                    ELSE [l2 EXCEPT !.context.page = this,
                                    !.context.items = this.object_list]
       ELSE Respond(l2, Raised("PageNotAnInteger"))

\* set_ordering storing whatever was posted.
set_ordering_unchecked(l, new_order) ==
    Respond([Step(l, "set_ordering") EXCEPT !.session = new_order], Redirect("current_link"))

\* ListView.set_ordering(request, new_order): a declared order_by is stored
\* in the session and answered with a redirect to the current link; for any
\* other value the error message is flashed and ValueError raised.
set_ordering(l, new_order) ==
    LET l1 == Step(l, "set_ordering")
        orders == ordering(l.class)
    IN IF \E i \in 1..Len(orders) : orders[i][2] = new_order
       THEN Respond([l1 EXCEPT !.session = new_order], Redirect("current_link"))
       ELSE Respond(Flash(l1, Error("New sorting method is incorrect.")), Raised("ValueError"))

order_as_dict(order) ==
    [name |-> order[1], order_by |-> order[2],
     type |-> IF Descending(order[2]) THEN "desc" ELSE "asc"]

\* order_items choosing the session's ordering only.
order_items_no_fallback(l) ==
    LET current_ordering == l.session
        orders == ordering(l.class)
        dicts == [i \in 1..Len(orders) |-> order_as_dict(orders[i])]
        chosen == SelectSeq(dicts, LAMBDA d : d.order_by = current_ordering)
        others == SelectSeq(dicts, LAMBDA d : d.order_by # current_ordering)
        l1 == Step(l, "order_items")
    IN IF chosen # <<>>
       THEN [l1 EXCEPT !.context.order = chosen[Len(chosen)],
                       !.context.items = order_by(@, current_ordering),
                       !.context.order_by = others]
       ELSE [l1 EXCEPT !.context.order_by = others]

\* ListView.order_items(request, context): the declared ordering the session
\* names becomes context['order'] and orders the items, the others are
\* appended to context['order_by']; when none was named the first of them is
\* popped and used.
order_items(l) ==
    LET current_ordering == l.session
        orders == ordering(l.class)
        dicts == [i \in 1..Len(orders) |-> order_as_dict(orders[i])]
        chosen == SelectSeq(dicts, LAMBDA d : d.order_by = current_ordering)
        others == SelectSeq(dicts, LAMBDA d : d.order_by # current_ordering)
        l1 == Step(l, "order_items")
    IN IF chosen # <<>>
       THEN [l1 EXCEPT !.context.order = chosen[Len(chosen)],
                       !.context.items = order_by(@, current_ordering),
                       !.context.order_by = others]
       ELSE [l1 EXCEPT !.context.order = Head(others),
                       !.context.items = order_by(@, Head(others).order_by),
                       !.context.order_by = Tail(others)]

\* The end of ListView.dispatch: pagination when items_per_page is set
\* (kwargs.get('page', 0)), then the page is rendered unless that raised.
paginate_and_render(l) ==
    IF l.items_per_page # 0
    THEN LET l1 == paginate_items(l, IF l.page = "absent" THEN "0" ELSE l.page)
         IN IF l1.response.kind = "exception" /\ l1.response.to # "none" THEN l1
            ELSE render(l1)
    ELSE render(l)

\* ListView.dispatch
ListView_dispatch(l) ==
    LET l0 == [l EXCEPT !.context.items = get_queryset]
    IN IF ordering(l.class) # <<>>
       THEN IF l.method = "POST" /\ l.POST # "absent"
            THEN LET l1 == set_ordering(l0, l.POST)
                 IN IF l1.response = Raised("ValueError")
                    THEN paginate_and_render(order_items(Respond(l1, Raised("none"))))
                    ELSE l1
            ELSE paginate_and_render(order_items(l0))
       ELSE paginate_and_render(l0)

\* The end of a list request.
ListHandled(l) ==
    /\ Len(flash) + Len(l.flashed) <= MaxFlash
    /\ flash' = IF l.response.kind = "render" THEN <<>> ELSE flash \o l.flashed
    /\ session' = l.session
    /\ listing' = l
    /\ UNCHANGED <<modvars, items, view>>

ListGet(class, per_page, page) ==
    ListHandled(ListView_dispatch(StartList(class, per_page, "GET", "absent", page)))

ListPost(class, per_page, post, page) ==
    ListHandled(ListView_dispatch(StartList(class, per_page, "POST", post, page)))

ListNext ==
    \/ \E class \in ListViews, per_page \in ItemsPerPage, page \in PageArgs :
          ListGet(class, per_page, page)
    \/ \E class \in ListViews, per_page \in ItemsPerPage, post \in PostedOrders,
          page \in PageArgs : ListPost(class, per_page, post, page)

\* The Model's rows are whatever the form views saved; their names differ
\* (a unique column), so that ordering by name is an order.
ListInit ==
    /\ InitModeration({})
    /\ flash = <<>>
    /\ view = NoView
    /\ session = "None"
    /\ listing = NoListing
    /\ items \in [ItemIds -> {"absent"} \cup FormData]
    /\ \A i, j \in ItemIds : i # j /\ items[i] # "absent" => items[i] # items[j]

ListSpec == ListInit /\ [][ListNext]_vars

\* ------------------------------------------------------------- the claims

\* The moderation functions that check the thread's state first.
Conditional == {"announce_thread", "pin_thread", "remove_thread_weight", "move_thread",
                "approve_thread", "open_thread", "close_thread", "unhide_thread",
                "hide_thread"}

\* The state an action brings a thread to.
InTarget(op, obj, cat) ==
    CASE op = "announce_thread" -> obj.weight = 2
      [] op = "pin_thread" -> obj.weight = 1
      [] op = "remove_thread_weight" -> obj.weight = 0
      [] op = "move_thread" -> obj.category = cat
      [] op = "approve_thread" -> ~obj.is_moderated
      [] op = "open_thread" -> ~obj.is_closed
      [] op = "close_thread" -> obj.is_closed
      [] op = "unhide_thread" -> ~obj.is_hidden
      [] op = "hide_thread" -> obj.is_hidden
      [] OTHER -> FALSE

\* The thread columns an action is documented to change (has_events aside).
Documented(op) ==
    CASE op \in {"announce_thread", "pin_thread", "remove_thread_weight"} -> {"weight"}
      [] op \in {"open_thread", "close_thread"} -> {"is_closed"}
      [] op = "move_thread" -> {"category"}
      [] op = "approve_thread" -> {"is_moderated"}
      [] op \in {"hide_thread", "unhide_thread"} -> {"is_hidden"}
      [] OTHER -> {}

IsPrefix(s, t) == Len(s) <= Len(t) /\ \A i \in 1..Len(s) : s[i] = t[i]

\* The last call was one of the state-checking actions and returned.
LastConditional == last.op \in Conditional

LastWasNoOp == LastConditional /\ InTarget(last.op, last.preobj, last.category)

LastApplied == LastConditional /\ ~InTarget(last.op, last.preobj, last.category)

\* C1: a state-checking moderation action invoked on a thread that is already
\* in its target state returns False, writes nothing (no event, no change of
\* the thread or its first post, in memory or in the database); and after any
\* such action the thread is in the target state, so that invoking it again
\* is such a no-op.
C1_NoOpInTargetState ==
    /\ LastWasNoOp => /\ last.ret = FALSE
                      /\ db = last.pre
                      /\ last.postobj = last.preobj
                      /\ last.saves = <<>>
    /\ LastConditional => InTarget(last.op, last.postobj, last.category)

\* The second of two identical invocations: the thread was closed by a call
\* before, and close_thread on it returned False.
C1_Witness ==
    /\ last.op = "close_thread" /\ last.ret = FALSE
    /\ Len(db.events[last.thread]) = 1
    /\ db.events[last.thread][1].message = "closed"

C3_OnlyDocumentedFields ==
    (LastConditional /\ last.ret) =>
        \A f \in ThreadFields \ (Documented(last.op) \cup {"has_events"}) :
            /\ last.postobj[f] = last.preobj[f]
            /\ db.thread[last.thread][f] = last.pre.thread[last.thread][f]

\* C4: an action that applies a change saves the thread exactly once, and
\* that save writes only the documented columns and has_events.
C4_OnePartialSave ==
    (LastConditional /\ last.ret) =>
        /\ Len(last.saves) = 1
        /\ last.saves[1] = Documented(last.op) \cup {"has_events"}

\* The audit events of thread t that record a change of the thread's columns.
ChangeEvents(t) == SelectSeq(db.events[t], LAMBDA e : e.message # "merged")

\* C5: in every persisted state the audit events of a thread are those of the
\* calls whose save of the thread is persisted (as many events as persisted
\* changes, state after state), and a call that raised, wherever it failed,
\* left the database as it was before the call.
C5_EventIffChange ==
    /\ \A t \in db.alive : Len(ChangeEvents(t)) = db.changes[t]
    /\ last.raised => db = last.pre

\* A call failed after its event was written (and, here, its first post
\* saved), on a thread that carries the committed change of an earlier call.
C5_Witness ==
    /\ last.raised /\ Len(last.steps) >= 2
    /\ \E t \in db.alive : db.changes[t] >= 1 /\ Len(db.events[t]) >= 1

\* C6: hide_thread on a visible thread hides the thread and its first post
\* and sets the first post's hide metadata to the acting user and the time
\* of the call; unhide_thread changes nothing but is_hidden of the thread and
\* of its first post (and has_events), in memory and in the database, and
\* keeps the events recorded before.
C6_HideUnhide ==
    /\ (last.op = "hide_thread" /\ last.ret) =>
          LET hidden == [last.pre.post[last.thread] EXCEPT
                            !.is_hidden = TRUE, !.hidden_by = last.user,
                            !.hidden_by_name = username(last.user),
                            !.hidden_by_slug = slug(last.user), !.hidden_on = clock]
          IN /\ db.post[last.thread] = hidden
             /\ last.postobj.first_post.hidden_by = last.user
             /\ last.postobj.first_post.hidden_on = clock
             /\ last.postobj.is_hidden /\ db.thread[last.thread].is_hidden
    /\ (last.op = "unhide_thread" /\ last.ret) =>
          /\ db.post[last.thread] = [last.pre.post[last.thread] EXCEPT !.is_hidden = FALSE]
          /\ db.thread[last.thread] =
                [last.pre.thread[last.thread] EXCEPT !.is_hidden = FALSE, !.has_events = TRUE]
          /\ last.postobj =
                [last.preobj EXCEPT !.is_hidden = FALSE, !.has_events = TRUE,
                                    !.first_post.is_hidden = FALSE]
          /\ IsPrefix(last.pre.events[last.thread], db.events[last.thread])

\* C7: merge_thread records the event on the destination, merges, and only
\* then deletes the source: after the call the source thread is gone and,
\* the source being another thread, its posts are the destination's.
C7_MergeThenDelete ==
    last.op = "merge_thread" =>
        /\ last.ret = TRUE
        /\ last.steps = <<"record_event", "merge", "delete">>
        /\ last.other \notin db.alive
        /\ last.thread # last.other =>
              /\ PostsOf(db, last.thread) =
                    PostsOf(last.pre, last.thread) \cup PostsOf(last.pre, last.other)
              /\ PostsOf(last.pre, last.other) # {}

C7_Witness ==
    /\ last.op = "merge_thread" /\ last.thread = 1 /\ last.other = 2
    /\ PostsOf(db, 1) = {1, 2} /\ db.alive = {1}

MissingTarget == view.class # "none" /\ view.pk # 0 /\ view.items[view.pk] = "absent"

\* C9: a request for a target that does not exist ends in the message_404
\* error message and a redirect to root_link, never in an exception, in
\* TargetedView.dispatch and in AdminView._get_target.
C9_MissingTargetRedirects ==
    MissingTarget =>
        /\ view.response = Redirect("root_link")
        /\ view.flashed = <<Error("message_404")>>

Targeted == view.class \in {"FormView", "ButtonView"}

Hooks == {"real_dispatch", "handle_form", "button_action"}

\* C10: TargetedView.dispatch resolves the target, then checks permissions,
\* then delegates: real_dispatch (and with it handle_form and button_action)
\* runs only after both, with a target and no permission error; a permission
\* error is flashed once and answered with a redirect to root_link, and no
\* hook runs.
C10_DispatchOrder ==
    Targeted =>
        /\ view.trace[1] = "get_target_or_none"
        /\ Len(view.trace) >= 2 => view.trace[2] = "check_permissions"
        /\ \A i \in 1..Len(view.trace) : view.trace[i] \in Hooks => i >= 3
        /\ Len(view.trace) >= 3 =>
              /\ view.trace[3] = "real_dispatch"
              /\ ~MissingTarget
              /\ view.error = "None"
        /\ view.error \notin {"None", "unchecked"} =>
              /\ view.trace = <<"get_target_or_none", "check_permissions">>
              /\ view.flashed = <<Error(view.error)>>
              /\ view.response = Redirect("root_link")

\* A POST of a valid form for an existing row, refused by check_permissions.
C10_Witness ==
    /\ view.class = "FormView" /\ view.error = "denied"
    /\ view.method = "POST" /\ view.pk # 0 /\ view.items[view.pk] # "absent"
    /\ view.response = Redirect("root_link")

\* The order_by values a list view declares, and its orderings as the
\* dictionaries of the context.
DeclaredKeys(class) == {ordering(class)[i][2] : i \in 1..Len(ordering(class))}

DeclaredOrders(class) == [i \in 1..Len(ordering(class)) |-> order_as_dict(ordering(class)[i])]

Ran(step) == \E i \in 1..Len(listing.trace) : listing.trace[i] = step

\* The last request was a POST to a list view with an order_by value.
SortPost == listing.class # "none" /\ listing.method = "POST" /\ listing.POST # "absent"

InvalidSortPost == SortPost /\ listing.POST \notin DeclaredKeys(listing.class)

\* C11 (as amended): a POST to a list view that declares orderings, with an
\* order_by value that is not one of them, flashes the one error message and
\* changes no state (the session's ordering is as before); it is not
\* answered with a redirect: the request goes on as a list request, whose
\* items are ordered by a declared ordering, paginated and rendered.
C11_InvalidSortKeepsState ==
    (InvalidSortPost /\ ordering(listing.class) # <<>>) =>
        /\ listing.flashed = <<Error("New sorting method is incorrect.")>>
        /\ listing.session = listing.before
        /\ session = listing.before
        /\ listing.response.kind # "redirect"
        /\ Ran("order_items")
        /\ listing.context.order.order_by \in DeclaredKeys(listing.class)
        /\ listing.items_per_page = 0 => listing.response = Rendered("list.html")
        /\ listing.items_per_page # 0 => Ran("paginate_items")

\* An undeclared value posted to the list ordered by name after an earlier
\* valid POST: the list is rendered, still ordered by name.
C11_Witness ==
    /\ InvalidSortPost /\ listing.POST = "bogus" /\ listing.class = "NameList"
    /\ listing.before = "name" /\ session = "name"
    /\ listing.response = Rendered("list.html")
    /\ listing.context.order.order_by = "name"

\* C11 as stated: a POST to a list view that declares orderings, with an
\* order_by value that is not one of them, is answered with an error message
\* and a redirect, and the session's ordering is as before.
C11_InvalidSortRedirects ==
    (InvalidSortPost /\ ordering(listing.class) # <<>>) =>
        /\ listing.flashed # <<>>
        /\ listing.response.kind = "redirect"
        /\ session = listing.before

\* C12: a POST with a declared order_by stores it in the session (and only
\* such a POST changes what the session holds); a list request of a view
\* with orderings is ordered by the session's value when the view declares
\* it and by the first declared ordering otherwise; context['order'] is one
\* declared ordering, context['order_by'] the others in declaration order,
\* and the items are in that order.
C12_SessionOrdering ==
    LET declared == DeclaredOrders(listing.class)
        keys == DeclaredKeys(listing.class)
        context == listing.context
    IN /\ (SortPost /\ listing.POST \in keys) =>
              /\ session = listing.POST
              /\ listing.response = Redirect("current_link")
       /\ session # listing.before => (SortPost /\ listing.POST \in keys)
       /\ (listing.class # "none" /\ keys # {} /\ ~(SortPost /\ listing.POST \in keys)) =>
              /\ Ran("order_items")
              /\ \E i \in 1..Len(declared) : context.order = declared[i]
              /\ listing.before \in keys => context.order.order_by = listing.before
              /\ listing.before \notin keys => context.order = declared[1]
              /\ context.order_by = SelectSeq(declared, LAMBDA d : d # context.order)
              /\ \A i, j \in 1..Len(context.items) :
                    i < j => SortKey(context.items[i], context.order.order_by)
                                < SortKey(context.items[j], context.order.order_by)

\* A GET of the list with three orderings in a session whose ordering an
\* earlier POST set to the third of them.
C12_Witness ==
    /\ listing.class = "NameList" /\ listing.method = "GET"
    /\ listing.before = "id" /\ listing.context.order.order_by = "id"
    /\ Len(listing.context.order_by) = 2
    /\ listing.context.items = <<1, 2>>
    /\ listing.response = Rendered("list.html")

\* C18: with items_per_page > 0 paginate_items selects the first page when
\* the page argument is 0, absent or not an integer, page n for an integer
\* n > 1 (a page the paginator has), and raises ExplicitFirstPage for an
\* explicit 1; with items_per_page = 0 paginator and page stay None.
C18_Pagination ==
    LET context == listing.context
        page == listing.page
    IN /\ (Ran("paginate_items") /\ (page \in {"absent", "0"} \/ page \notin DOMAIN Decimal)) =>
              /\ context.page.number = 1
              /\ listing.response = Rendered("list.html")
       /\ (Ran("paginate_items") /\ page = "1") =>
              listing.response = Raised("ExplicitFirstPage")
       /\ (Ran("paginate_items") /\ page \in DOMAIN Decimal /\ Decimal[page] > 1
             /\ Decimal[page] <= context.paginator.num_pages) =>
              /\ context.page.number = Decimal[page]
              /\ listing.response = Rendered("list.html")
       /\ (listing.class # "none" /\ listing.items_per_page = 0) =>
              /\ ~Ran("paginate_items")
              /\ context.paginator = NoPaginator /\ context.page = NoPage

\* The message of the event an action records.
EventMessage(op) ==
    CASE op = "announce_thread" -> "announced"
      [] op = "pin_thread" -> "pinned"
      [] op = "remove_thread_weight" -> "removed weight"
      [] op = "move_thread" -> "moved"
      [] op = "approve_thread" -> "approved"
      [] op = "open_thread" -> "opened"
      [] op = "close_thread" -> "closed"
      [] op = "unhide_thread" -> "made visible"
      [] op = "hide_thread" -> "hidden"
      [] OTHER -> "None"

\* The call applied before the last one on the same thread was the same
\* action by the other request, and it had brought the persisted thread to
\* the action's target state.
AppliedByOther ==
    LET before == last.pre.events[last.thread]
    IN /\ LastConditional
       /\ before # <<>>
       /\ before[Len(before)].message = EventMessage(last.op)
       /\ before[Len(before)].author # last.user
       /\ InTarget(last.op, last.pre.thread[last.thread], last.category)

\* C13: of two requests that invoke the same action on the same thread, each
\* on its own copy, at most one applies the change: once one of them has
\* committed it, the other's call does not return True and records no second
\* event for it.
C13_AtMostOneApplies ==
    AppliedByOther =>
        /\ last.ret = FALSE
        /\ db.events[last.thread] = last.pre.events[last.thread]

\* The thread's columns an action other than a documented one must keep.
Shared == {"weight", "is_closed", "category"}

\* C14: an action that applies a change does not undo what another request
\* committed meanwhile to weight, is_closed or category: these columns of
\* the persisted thread, when they are not the action's own, are after the
\* call what they were before it, whatever the caller's copy holds.
C14_NoLostUpdate ==
    (LastConditional /\ last.ret) =>
        \A f \in Shared \ Documented(last.op) :
            db.thread[last.thread][f] = last.pre.thread[last.thread][f]

Compared == {"weight", "is_closed", "is_hidden", "is_moderated", "category"}

Agree(obj, row) == \A f \in Compared : obj[f] = row[f]

\* C15: when an action is called on an instance that agrees with the
\* persisted thread on weight, is_closed, is_hidden, is_moderated and
\* category, the instance and the persisted thread agree on them after it.
C15_MemoryMatchesRow ==
    (LastConditional /\ Agree(last.preobj, last.pre.thread[last.thread])) =>
        Agree(last.postobj, db.thread[last.thread])

\* C16: in every state a persisted thread's is_hidden equals its first
\* post's, and so does that of every instance a request holds, under any
\* sequence of hide_thread, unhide_thread and the other actions, also by
\* requests working on copies loaded earlier and with calls that raise.
C16_HiddenWithFirstPost ==
    /\ \A t \in db.alive : db.thread[t].is_hidden = db.post[t].is_hidden
    /\ \A r \in Requests : \A t \in held[r] :
          mem[r][t].is_hidden = mem[r][t].first_post.is_hidden

\* A thread hidden, then changed by another action, then made visible.
C16_Witness ==
    /\ last.op = "unhide_thread" /\ last.ret
    /\ Len(db.events[last.thread]) = 3
    /\ db.events[last.thread][1].message = "hidden"
    /\ db.events[last.thread][2].message \notin {"hidden", "made visible"}
    /\ ~db.thread[last.thread].is_hidden /\ ~db.post[last.thread].is_hidden

\* C17: after merge_thread(thread, other_thread), for any pair of threads
\* (the same thread twice too), the destination thread exists and carries
\* the event the call recorded on it.
C17_MergeKeepsDestination ==
    last.op = "merge_thread" =>
        /\ last.thread \in db.alive
        /\ db.events[last.thread] =
              Append(last.pre.events[last.thread],
                     [icon |-> "arrow-right", message |-> "merged", author |-> last.user])

====
